---- MODULE Spec2Model ----
(***************************************************************************)
(* vagranttop: a top-like curses dashboard for VBoxHeadless processes,     *)
(* correlated with `vagrant global-status` and `VBoxManage list            *)
(* runningvms`.  The model follows src/vagranttop/vagranttop.py: the       *)
(* Top object's fields, the loop/poll/check_input/refresh_window methods   *)
(* and the three module-level helpers that run external commands.          *)
(***************************************************************************)
EXTENDS Integers, Sequences, FiniteSets, TLC

VARIABLES
    pc,               \* position of the program: start, loop, sleep, enum, render, done, crashed
    error,            \* name of the exception that ended the program ("" if none)
    sort_col,         \* Top.sort_col
    sort_reverse,     \* Top.sort_reverse
    graceful_exit,    \* Top.graceful_exit
    ssh,              \* Top.ssh (the DO_SSH environment toggle)
    vagrant_machines, \* Top.vagrant_machines: provider id -> line_dict
    running_vms,      \* Top.running_vms: comment -> identifier
    keys,             \* keys typed and not yet read by win.getkey()
    interval,         \* local `interval` of Top.loop
    slice,            \* loop variable i of the sleep loop in Top.poll
    idx,              \* number of processes process_iter() has yielded in this poll
    procs,            \* local `procs` of Top.poll, then the sorted `processes`
    procs_status,     \* local `procs_status` of Top.poll
    refreshCount,     \* inventory refreshes attempted in the current poll
    workers,          \* VBoxHeadless processes read in the current poll
    vanished,         \* processes that raised NoSuchProcess in the current poll
    loadCalls,        \* get_vagrant_load() calls made in the current poll
    vagrant_comment,  \* poll's local: the comment of the last VBoxHeadless process
    tmp_dir,          \* the scratch directory /tmp/vagranttop: missing, empty, vagrantfile
    stdout,           \* lines of `vagrant global-status` handed to the parser
    files             \* sentinel files: <<directory, name, provider>> -> contents

vars == <<pc, error, sort_col, sort_reverse, graceful_exit, ssh, vagrant_machines,
          running_vms, keys, interval, slice, idx, procs, procs_status,
          refreshCount, workers, vanished, loadCalls, vagrant_comment, tmp_dir,
          stdout, files>>

(***************************************************************************)
(* Bounds of the model.                                                    *)
(***************************************************************************)
MaxProcs == 2
MaxPending == 1
MaxRows == 2
MaxTyped == 3

(***************************************************************************)
(* Python values.  A field of p.dict can hold None, a number or a string;  *)
(* Python 2 orders them None < numbers < strings.                          *)
(***************************************************************************)
None == [k |-> 0, n |-> 0, s |-> ""]
Num(x) == [k |-> 1, n |-> x, s |-> ""]
Str(x) == [k |-> 2, n |-> 0, s |-> x]

\* The strings that occur in sort columns, in Python's (byte-wise) order.
StrOrder == <<"", "0f3c", "box1", "box1_default", "default">>

StrRank(x) == CHOOSE i \in 1..Len(StrOrder) : StrOrder[i] = x

\* a < b for two Python 2 values
PyLess(a, b) ==
    \/ a.k < b.k
    \/ a.k = b.k /\ a.k = 1 /\ a.n < b.n
    \/ a.k = b.k /\ a.k = 2 /\ StrRank(a.s) < StrRank(b.s)

(***************************************************************************)
(* What the environment can supply: keys, processes, command outputs.      *)
(***************************************************************************)
\* keys win.getkey() can return: quit, two sort keys (a numeric and a
\* string column), one unmapped key
Keys == {"q", "c", "n", "x"}

\* process names as_dict() reports
ProcNames == {"VBoxHeadless", "bash"}

\* command lines of the processes
CmdLines == { <<>>,
              <<"VBoxHeadless", "--startvm">>,
              <<"VBoxHeadless", "--comment", "box1_default", "--startvm">>,
              <<"VBoxHeadless", "--comment">> }

\* status, cpu_percent, memory_percent, cpu_times as as_dict() reports them
Metrics == { [status |-> "running", cpu_percent |-> Num(1), memory_percent |-> Num(2),
               cpu_times_none |-> FALSE, cpu_times |-> <<1, 1>>],
             [status |-> "sleeping", cpu_percent |-> Num(2), memory_percent |-> Num(2),
               cpu_times_none |-> FALSE, cpu_times |-> <<3, 0>>] }

\* the same, with None where psutil was denied access
DeniedMetrics == { [status |-> "sleeping", cpu_percent |-> None, memory_percent |-> None,
                     cpu_times_none |-> TRUE, cpu_times |-> <<>>] }

Statuses == {m.status : m \in Metrics}

EmptyDict == [x \in {} |-> ""]

\* the row of `vagrant global-status` for the one vagrant machine, with the
\* keys get_vagrant_machines() adds to it
Box1 == [id |-> "0f3c", name |-> "default", provider |-> "virtualbox",
         state |-> "running", directory |-> "/home/u/box1",
         dir_name |-> "box1", index_uuid |-> "idx-1"]

\* results of get_vagrant_machines(): keyed by the content of the `id` file
MachineListings == { EmptyDict, [x \in {"u1"} |-> Box1] }

\* results of get_vbox_running_vms(): comment -> identifier
RunningListings == { EmptyDict, [x \in {"box1_default"} |-> "u1"] }

\* first token of /proc/loadavg as `vagrant ssh` prints it
LoadValues == {"0.10"}

\* outcome of one get_vagrant_machines() call: a dict, or an exception
\* (check_output's CalledProcessError, open()'s IOError on a missing sentinel)
MachineResults == { [exc |-> "", val |-> m] : m \in MachineListings } \cup
                  { [exc |-> "CalledProcessError: vagrant global-status", val |-> EmptyDict],
                    [exc |-> "IOError: sentinel file", val |-> EmptyDict] }

\* outcome of one get_vbox_running_vms() call
RunningResults == { [exc |-> "", val |-> r] : r \in RunningListings } \cup
                  { [exc |-> "CalledProcessError: VBoxManage list runningvms",
                     val |-> EmptyDict] }

\* outcome of one `vagrant ssh ... cat /proc/loadavg`
LoadResults == { [exc |-> "", val |-> v] : v \in LoadValues } \cup
               { [exc |-> "CalledProcessError: vagrant ssh", val |-> ""] }

(***************************************************************************)
(* Pure helpers.                                                           *)
(***************************************************************************)
NumSlices == 99

key_map == [k \in {"c", "m", "t", "p", "d", "n", "i"} |->
              CASE k = "c" -> "cpu_percent"
                [] k = "m" -> "memory_percent"
                [] k = "t" -> "time_sum"
                [] k = "p" -> "pid"
                [] k = "d" -> "vm_dir"
                [] k = "n" -> "vm_name"
                [] k = "i" -> "vm_id"]

SortColumns == {key_map[k] : k \in DOMAIN key_map}

\* check_input: the sort column after key k was read
KeySortCol(k, col) ==
    IF k # "q" /\ k \in DOMAIN key_map /\ col # key_map[k] THEN key_map[k] ELSE col

\* variant: selecting another column resets the direction to descending
KeySortReverse_Reset(k, col, rev) ==
    IF k # "q" /\ k \in DOMAIN key_map
    THEN (IF col = key_map[k] THEN ~rev ELSE TRUE)
    ELSE rev

\* check_input: the sort direction after key k was read
KeySortReverse(k, col, rev) ==
    IF k # "q" /\ k \in DOMAIN key_map /\ col = key_map[k] THEN ~rev ELSE rev

\* variant: every key that selects no column ends the loop
KeyGracefulExit_Unmapped(k, ge) == IF k \notin DOMAIN key_map THEN TRUE ELSE ge

\* check_input: graceful_exit after key k was read
KeyGracefulExit(k, ge) == IF k = "q" THEN TRUE ELSE ge

\* variant: a key that is neither "q" nor in key_map does not end the sleep
check_input_returns_Mapped(k) == k = "q" \/ k \in DOMAIN key_map

\* check_input: the value returned when getkey() gave k; True for every key,
\* and True makes poll break out of its sleep
check_input_returns(k) == TRUE

\* variant: `while True`
LoopContinues_Always(ge) == TRUE

\* Top.loop: the `while not self.graceful_exit` test
LoopContinues(ge) == ~ge

RECURSIVE ScanComment(_, _, _)
ScanComment(cmdline, i, found_comment) ==
    IF i > Len(cmdline) THEN None
    ELSE IF found_comment THEN Str(cmdline[i])
    ELSE ScanComment(cmdline, i + 1, cmdline[i] = "--comment")

\* Top.get_vagrant_comment: the token after "--comment", else None
get_vagrant_comment(cmdline) == ScanComment(cmdline, 1, FALSE)

\* `vagrant_comment in self.running_vms`
InRunning(comment, rv) == comment.k = 2 /\ comment.s \in DOMAIN rv

\* variant: the refresh is retried after the refreshed lookup misses again
RefreshAttempts_Retry(comment, rv) == IF ~InRunning(comment, rv) THEN 2 ELSE 0

\* Top.poll: number of inventory refreshes made for a process with this comment
RefreshAttempts(comment, rv) == IF ~InRunning(comment, rv) THEN 1 ELSE 0

\* self._get_vagrant_machines(); self._get_vbox_running_vms()
Refreshed(vm, rv, mres, rres) ==
    IF mres.exc # "" THEN [vm |-> vm, rv |-> rv, exc |-> mres.exc]
    ELSE IF rres.exc # "" THEN [vm |-> mres.val, rv |-> rv, exc |-> rres.exc]
    ELSE [vm |-> mres.val, rv |-> rres.val, exc |-> ""]

RECURSIVE SumSeq(_)
SumSeq(t) == IF t = <<>> THEN 0 ELSE Head(t) + SumSeq(Tail(t))

\* p.dict['time_sum']
TimeSum(met) == IF met.cpu_times_none THEN Str("") ELSE Num(SumSeq(met.cpu_times))

\* variant: the loop catches every exception and goes on
Propagates_Caught(exc) == FALSE

\* Top.loop catches KeyboardInterrupt and SystemExit only, and poll catches
\* NoSuchProcess only: every other exception ends the program
Propagates(exc) == exc # ""

\* variant: the ssh flag is ignored
_get_vagrant_load_Always(sshOn, lres) == [exc |-> lres.exc, val |-> lres.val, calls |-> 1]

\* Top._get_vagrant_load: the remote command (outcome lres) runs only with ssh on
\* (get_vagrant_load returns the first token of its output)
_get_vagrant_load(sshOn, lres) ==
    IF sshOn THEN [exc |-> lres.exc, val |-> lres.val, calls |-> 1]
    ELSE [exc |-> "", val |-> "?", calls |-> 0]

\* get_vagrant_load: the scratch directory after the call; the directory and
\* the Vagrantfile in it are created only when the directory is missing
ScratchAfterLoad(dir) == IF dir = "missing" THEN "vagrantfile" ELSE dir

\* vm_load of a process that did not correlate
UncorrelatedLoad == ""

\* variant: the name of the machine is shown in the id column
CorrelatedEntry_NameAsId(pid, met, vm, load) ==
    [pid |-> Num(pid),
     cpu_percent |-> met.cpu_percent, memory_percent |-> met.memory_percent,
     time_sum |-> TimeSum(met),
     vm_dir |-> Str(vm.dir_name), vm_name |-> Str(vm.name), vm_id |-> Str(vm.name),
     vm_load |-> Str(load)]

\* p.dict of a VBoxHeadless process whose comment is in running_vms
CorrelatedEntry(pid, met, vm, load) ==
    [pid |-> Num(pid),
     cpu_percent |-> met.cpu_percent, memory_percent |-> met.memory_percent,
     time_sum |-> TimeSum(met),
     vm_dir |-> Str(vm.dir_name), vm_name |-> Str(vm.name), vm_id |-> Str(vm.id),
     vm_load |-> Str(load)]

\* p.dict of a VBoxHeadless process whose comment is not in running_vms
UncorrelatedEntry(pid, met, comment) ==
    [pid |-> Num(pid),
     cpu_percent |-> met.cpu_percent, memory_percent |-> met.memory_percent,
     time_sum |-> TimeSum(met),
     vm_dir |-> Str(""), vm_name |-> comment, vm_id |-> Str(""),
     vm_load |-> Str(UncorrelatedLoad)]

\* Top.poll, the loop body for a VBoxHeadless process from the second lookup on,
\* with the inventory inv held after the conditional refresh: the exception
\* raised (if any), the entry appended to procs (if any), the remote load calls
Correlate(pid, met, comment, inv, sshOn, lres) ==
    IF inv.exc # "" THEN [exc |-> inv.exc, entry |-> <<>>, calls |-> 0]
    ELSE IF ~InRunning(comment, inv.rv)
    THEN [exc |-> "", entry |-> <<UncorrelatedEntry(pid, met, comment)>>, calls |-> 0]
    ELSE IF inv.rv[comment.s] \notin DOMAIN inv.vm
    THEN [exc |-> "KeyError", entry |-> <<>>, calls |-> 0]
    ELSE LET load == _get_vagrant_load(sshOn, lres)
             vm == inv.vm[inv.rv[comment.s]]
         IN  IF load.exc # ""
             THEN [exc |-> load.exc, entry |-> <<>>, calls |-> load.calls]
             ELSE [exc |-> "", entry |-> <<CorrelatedEntry(pid, met, vm, load.val)>>,
                   calls |-> load.calls]

\* variant: a status seen for the first time is not counted
CountStatus_DropFirst(d, status) ==
    IF status \in DOMAIN d THEN [d EXCEPT ![status] = @ + 1]
    ELSE [x \in DOMAIN d \cup {status} |-> IF x = status THEN 0 ELSE d[x]]

\* procs_status[status] += 1, starting at 1 for a new status
CountStatus(d, status) ==
    IF status \in DOMAIN d THEN [d EXCEPT ![status] = @ + 1]
    ELSE [x \in DOMAIN d \cup {status} |-> IF x = status THEN 1 ELSE d[x]]

\* variant: reverse is ignored
GoesBefore_Ascending(x, y, col, rev) == PyLess(x[col], y[col])

\* x goes strictly before y in the requested order
GoesBefore(x, y, col, rev) ==
    IF rev THEN PyLess(y[col], x[col]) ELSE PyLess(x[col], y[col])

\* variant: an entry whose key equals the key of an entry already placed is
\* dropped
InsertSorted_Unique(res, x, col, rev) ==
    LET n == Cardinality({i \in 1..Len(res) : ~GoesBefore(x, res[i], col, rev)})
    IN  IF \E i \in 1..Len(res) : res[i][col] = x[col] THEN res
        ELSE SubSeq(res, 1, n) \o <<x>> \o SubSeq(res, n + 1, Len(res))

\* stable insertion: x lands after every element it does not strictly precede
InsertSorted(res, x, col, rev) ==
    LET n == Cardinality({i \in 1..Len(res) : ~GoesBefore(x, res[i], col, rev)})
    IN  SubSeq(res, 1, n) \o <<x>> \o SubSeq(res, n + 1, Len(res))

RECURSIVE SortFrom(_, _, _, _, _)
SortFrom(res, seq, i, col, rev) ==
    IF i > Len(seq) THEN res
    ELSE SortFrom(InsertSorted(res, seq[i], col, rev), seq, i + 1, col, rev)

\* variant: the reverse argument is dropped
sorted_NoReverse(seq, col, rev) == SortFrom(<<>>, seq, 1, col, FALSE)

\* sorted(procs, key=lambda p: p.dict[col], reverse=rev): Python's sort is
\* stable, also with reverse=True
sorted(seq, col, rev) == SortFrom(<<>>, seq, 1, col, rev)

\* variant: the interval of the first cycle is kept
NextInterval_Keep(i) == i

\* Top.loop: `interval = 1` after every refresh_window
NextInterval(i) == 1

\* Top.poll: `'VBoxHeadless' == p.dict['name']`
IsWorker(name) == name = "VBoxHeadless"

\* win.getmaxyx()[0]: the rows of the terminal when the window is drawn (80
\* columns throughout)
WindowHeights == {6, 7, 8, 9, 24}

\* len(psutil.cpu_percent(percpu=True)): print_header writes a line per CPU
CpuCounts == {1, 17}

\* the lines written before the first process row: print_header (one per CPU,
\* Mem, Swap, Processes, Load average), the blank line, the column header
HeaderLines(ncpu) == ncpu + 6

\* print_line raises curses.error before the process rows: a line falls below
\* the window, or the column header, padded beyond the width, is on its last
\* line; refresh_window does not catch it there
HeaderRaises(h, ncpu) == h <= HeaderLines(ncpu)

\* the process rows print_line accepts: every row is padded beyond the width
\* of the window, so the last line of the window takes none
RowsThatFit(h, ncpu) == h - HeaderLines(ncpu) - 1

\* the entries the row loop formats: it stops at the first row that does not
\* fit, after having formatted it
RowsFormatted(ps, h, ncpu) ==
    IF Len(ps) <= RowsThatFit(h, ncpu) THEN Len(ps) ELSE RowsThatFit(h, ncpu) + 1

\* refresh_window: `" " + p.dict['vm_name']` raises TypeError on None, for an
\* entry the row loop gets to
RenderRaises(ps, h, ncpu) ==
    \E i \in 1..RowsFormatted(ps, h, ncpu) : ps[i].vm_name.k # 2

\* refresh_window(procs, procs_status) on a window of h rows with ncpu CPUs:
\* the exception that leaves it, "" when it returns
refresh_window(ps, h, ncpu) ==
    IF HeaderRaises(h, ncpu) THEN "curses.error"
    ELSE IF RenderRaises(ps, h, ncpu) THEN "TypeError"
    ELSE ""

(***************************************************************************)
(* The program.                                                            *)
(***************************************************************************)
\* main() up to the first statements of Top.__init__
Init ==
    /\ pc = "start"
    /\ error = ""
    /\ sort_col = "cpu_percent"
    /\ sort_reverse = TRUE
    /\ graceful_exit = FALSE
    /\ ssh \in BOOLEAN
    /\ vagrant_machines = EmptyDict
    /\ running_vms = EmptyDict
    /\ keys = <<>>
    /\ interval = 0
    /\ slice = 0
    /\ idx = 0
    /\ procs = <<>>
    /\ procs_status = EmptyDict
    /\ refreshCount = 0
    /\ workers = 0
    /\ vanished = 0
    /\ loadCalls = 0
    /\ vagrant_comment = None
    /\ tmp_dir = "missing"
    /\ stdout = <<>>
    /\ files = EmptyDict

display == <<sort_col, sort_reverse, graceful_exit>>
inventory == <<vagrant_machines, running_vms>>
pollLocals == <<idx, procs, procs_status, refreshCount, workers, vanished, loadCalls,
                vagrant_comment>>
parserInput == <<stdout, files>>

\* poll has returned or was left by an exception: its locals are gone
Unwind ==
    /\ idx' = 0
    /\ procs' = <<>>
    /\ procs_status' = EmptyDict
    /\ refreshCount' = 0
    /\ workers' = 0
    /\ vanished' = 0
    /\ loadCalls' = 0

\* the user types a key; it waits until win.getkey() reads it
KeyPress ==
    /\ pc \in {"start", "loop", "sleep", "enum", "render"}
    /\ Len(keys) < MaxPending
    /\ \E k \in Keys : keys' = Append(keys, k)
    /\ UNCHANGED <<pc, error, display, ssh, inventory, interval, slice, pollLocals>>
    /\ UNCHANGED <<tmp_dir, parserInput>>

\* Top.__init__: the two listings are fetched; a failure ends the program
Construct ==
    /\ pc = "start"
    /\ \E mres \in MachineResults, rres \in RunningResults :
         LET inv == Refreshed(vagrant_machines, running_vms, mres, rres)
         IN  /\ vagrant_machines' = inv.vm
             /\ running_vms' = inv.rv
             /\ error' = inv.exc
             /\ pc' = IF Propagates(inv.exc) THEN "crashed" ELSE "loop"
    /\ UNCHANGED <<display, ssh, keys, interval, slice, pollLocals>>
    /\ UNCHANGED <<tmp_dir, parserInput>>

\* Top.loop: the while test; poll() is entered or the loop ends
LoopTest ==
    /\ pc = "loop"
    /\ pc' = IF LoopContinues(graceful_exit) THEN "sleep" ELSE "done"
    /\ slice' = 0
    /\ UNCHANGED <<error, display, ssh, inventory, keys, interval, pollLocals>>
    /\ UNCHANGED <<tmp_dir, parserInput>>

\* Top.poll, sleep loop: check_input() reads a key and the sleep is abandoned
ReadKey ==
    /\ pc = "sleep"
    /\ keys # <<>>
    /\ LET k == Head(keys)
       IN  /\ sort_col' = KeySortCol(k, sort_col)
           /\ sort_reverse' = KeySortReverse(k, sort_col, sort_reverse)
           /\ graceful_exit' = KeyGracefulExit(k, graceful_exit)
    /\ keys' = Tail(keys)
    /\ IF check_input_returns(Head(keys)) \/ slice + 1 >= NumSlices
       THEN /\ slice' = 0
            /\ pc' = "enum"
       ELSE /\ slice' = slice + 1
            /\ pc' = "sleep"
    /\ UNCHANGED <<error, ssh, inventory, interval, pollLocals>>
    /\ UNCHANGED <<tmp_dir, parserInput>>

\* Top.poll, sleep loop: no key (curses.error), one slice is slept
SleepSlice ==
    /\ pc = "sleep"
    /\ keys = <<>>
    /\ IF slice + 1 < NumSlices
       THEN /\ slice' = slice + 1
            /\ pc' = "sleep"
       ELSE /\ slice' = 0
            /\ pc' = "enum"
    /\ UNCHANGED <<error, display, ssh, inventory, keys, interval, pollLocals>>
    /\ UNCHANGED <<tmp_dir, parserInput>>

\* Top.poll, process loop: as_dict raises NoSuchProcess, the process is skipped
PollVanished ==
    /\ pc = "enum"
    /\ idx < MaxProcs
    /\ idx' = idx + 1
    /\ vanished' = vanished + 1
    /\ UNCHANGED <<pc, error, display, ssh, inventory, keys, interval, slice,
                   procs, procs_status, refreshCount, workers, loadCalls,
                   vagrant_comment>>
    /\ UNCHANGED <<tmp_dir, parserInput>>

\* Top.poll, process loop: a process that is not VBoxHeadless is only counted
PollOther ==
    /\ pc = "enum"
    /\ idx < MaxProcs
    /\ \E name \in ProcNames : ~IsWorker(name)
    /\ idx' = idx + 1
    /\ \E status \in Statuses : procs_status' = CountStatus(procs_status, status)
    /\ UNCHANGED <<pc, error, display, ssh, inventory, keys, interval, slice,
                   procs, refreshCount, workers, vanished, loadCalls,
                   vagrant_comment>>
    /\ UNCHANGED <<tmp_dir, parserInput>>

\* Top.poll, process loop: a VBoxHeadless process is correlated and retained
PollWorker ==
    /\ pc = "enum"
    /\ idx < MaxProcs
    /\ \E name \in ProcNames : IsWorker(name)
    /\ \E comment \in {get_vagrant_comment(cmdline) : cmdline \in CmdLines},
          met \in Metrics :
         LET n == RefreshAttempts(comment, running_vms)
         IN  \E inv \in IF n = 0
                        THEN {[vm |-> vagrant_machines, rv |-> running_vms, exc |-> ""]}
                        ELSE {Refreshed(vagrant_machines, running_vms, mres, rres) :
                                 mres \in MachineResults, rres \in RunningResults} :
               \E res \in {Correlate(idx + 1, met, comment, inv, ssh, lres) :
                              lres \in LoadResults} :
                  /\ vagrant_machines' = inv.vm
                  /\ running_vms' = inv.rv
                  /\ error' = res.exc
                  /\ vagrant_comment' = comment
                  /\ tmp_dir' = IF res.calls > 0 THEN ScratchAfterLoad(tmp_dir) ELSE tmp_dir
                  /\ IF Propagates(res.exc)
                     THEN /\ pc' = "crashed"
                          /\ Unwind
                     ELSE /\ pc' = pc
                          /\ idx' = idx + 1
                          /\ workers' = workers + 1
                          /\ procs_status' = CountStatus(procs_status, met.status)
                          /\ refreshCount' = refreshCount + n
                          /\ procs' = procs \o res.entry
                          /\ loadCalls' = loadCalls + res.calls
                          /\ UNCHANGED vanished
    /\ UNCHANGED <<display, ssh, keys, interval, slice>>
    /\ UNCHANGED parserInput

\* Top.poll: process_iter() is exhausted, the entries are sorted and returned
PollSort ==
    /\ pc = "enum"
    /\ procs' = sorted(procs, sort_col, sort_reverse)
    /\ pc' = "render"
    /\ UNCHANGED <<error, display, ssh, inventory, keys, interval, slice,
                   idx, procs_status, refreshCount, workers, vanished, loadCalls,
                   vagrant_comment>>
    /\ UNCHANGED <<tmp_dir, parserInput>>

\* Top.refresh_window, then `interval = 1` in Top.loop
Render ==
    /\ pc = "render"
    /\ \E exc \in {refresh_window(procs, h, ncpu) :
                    h \in WindowHeights, ncpu \in CpuCounts} :
         IF exc # ""
         THEN /\ error' = exc
              /\ pc' = IF Propagates(exc) THEN "crashed" ELSE "loop"
              /\ UNCHANGED interval
         ELSE /\ pc' = "loop"
              /\ interval' = NextInterval(interval)
              /\ UNCHANGED error
    /\ Unwind
    /\ vagrant_comment' = None
    /\ UNCHANGED <<display, ssh, inventory, keys, slice>>
    /\ UNCHANGED <<tmp_dir, parserInput>>

Next ==
    \/ KeyPress
    \/ Construct
    \/ LoopTest
    \/ ReadKey
    \/ SleepSlice
    \/ PollVanished
    \/ PollOther
    \/ PollWorker
    \/ PollSort
    \/ Render

Spec == Init /\ [][Next]_vars

\* the steps of the program itself; the user's key presses are not forced
ProgramStep ==
    \/ Construct
    \/ LoopTest
    \/ ReadKey
    \/ SleepSlice
    \/ PollVanished
    \/ PollOther
    \/ PollWorker
    \/ PollSort
    \/ Render

\* the interpreter keeps running the program: main() calls top.loop() and every
\* call returns or raises
FairSpec == Spec /\ WF_vars(ProgramStep)

(***************************************************************************)
(* The sort on its own: any list of entries, any column, either direction. *)
(***************************************************************************)
\* what one p.dict can hold: any metrics, any outcome of the correlation
SortEntryKinds ==
    (Metrics \cup DeniedMetrics) \X {"none", "uncorrelated", "correlated"}

SortEntry(pid, kind) ==
    CASE kind[2] = "none" -> UncorrelatedEntry(pid, kind[1], None)
      [] kind[2] = "uncorrelated" -> UncorrelatedEntry(pid, kind[1], Str("box1_default"))
      [] kind[2] = "correlated" -> CorrelatedEntry(pid, kind[1], Box1, "?")

SortInputs ==
    UNION { { [i \in 1..n |-> SortEntry(i, f[i])] : f \in [1..n -> SortEntryKinds] } :
            n \in 0..MaxProcs }

InitSort ==
    /\ pc = "unsorted"
    /\ error = ""
    /\ sort_col \in SortColumns
    /\ sort_reverse \in BOOLEAN
    /\ graceful_exit = FALSE
    /\ ssh = FALSE
    /\ vagrant_machines = EmptyDict
    /\ running_vms = EmptyDict
    /\ keys = <<>>
    /\ interval = 0
    /\ slice = 0
    /\ idx = 0
    /\ procs \in SortInputs
    /\ procs_status = EmptyDict
    /\ refreshCount = 0
    /\ workers = 0
    /\ vanished = 0
    /\ loadCalls = 0
    /\ vagrant_comment = None
    /\ tmp_dir = "missing"
    /\ stdout = <<>>
    /\ files = EmptyDict

\* the last statement of Top.poll on its own
SortOnly ==
    /\ pc = "unsorted"
    /\ procs' = sorted(procs, sort_col, sort_reverse)
    /\ pc' = "sorted"
    /\ UNCHANGED <<error, display, ssh, inventory, keys, interval, slice,
                   idx, procs_status, refreshCount, workers, vanished, loadCalls,
                   vagrant_comment>>
    /\ UNCHANGED <<tmp_dir, parserInput>>

SortSpec == InitSort /\ [][SortOnly]_vars

(***************************************************************************)
(* get_vagrant_machines on its own: any listing text, any sentinel files.  *)
(* A line of the text is the sequence of its blank-separated tokens, the   *)
(* blank line is <<>>.                                                     *)
(***************************************************************************)
\* line 1 of `vagrant global-status`
ListingHeader == <<"id", "name", "provider", "state", "directory">>

\* line 2 of `vagrant global-status`
ListingRule == <<"-----------------------------------------------">>

\* the data rows a listing is made of; the last one is cut short
ListingRows == { <<"0f3c", "default", "virtualbox", "running", "/home/u/box1">>,
                 <<"9a1b", "default", "virtualbox", "poweroff", "/home/u/box2">>,
                 <<"7e7e", "default">> }

\* the text vagrant prints after the blank line that ends the rows
ListingTrailer == << <<>>, <<"The", "above", "shows", "information">> >>

ListingTexts ==
    UNION { { <<ListingHeader, ListingRule>> \o rows \o trailer :
                rows \in [1..n -> ListingRows], trailer \in {<<>>, ListingTrailer} } :
            n \in 0..MaxRows }

\* os.path.join(directory, '.vagrant/machines', name, provider), as the triple
SentinelPaths == { <<"/home/u/box1", "default", "virtualbox">>,
                   <<"/home/u/box2", "default", "virtualbox">> }

\* what the two files under a sentinel path can hold
SentinelContents == { [index_uuid |-> "idx-1", id |-> "u1"],
                      [index_uuid |-> "idx-2", id |-> "u2"],
                      [index_uuid |-> "idx-1", id |-> ""] }

\* the sentinel directories that exist, with the contents of their files
SentinelFiles ==
    UNION { [present -> SentinelContents] : present \in SUBSET SentinelPaths }

\* os.path.split(path)[-1] on the directories of the listing
os_path_basename(path) ==
    CASE path = "/home/u/box1" -> "box1"
      [] path = "/home/u/box2" -> "box2"
      [] OTHER -> ""

\* d[k] = v
DictSet(d, k, v) == [x \in DOMAIN d \cup {k} |-> IF x = k THEN v ELSE d[x]]

\* open(os.path.join(vagrant_path, 'index_uuid')).read(1000), taken for the key
ProviderId_IndexUuid(fs, path) == fs[path].index_uuid

\* provider_id = open(os.path.join(vagrant_path, 'id')).read(1000)
ProviderId(fs, path) == fs[path].id

\* the body of the for loop over the rows, from line number i on
RECURSIVE ParseRows(_, _, _, _, _)
ParseRows(lines, header, i, fs, machines) ==
    IF i > Len(lines) \/ lines[i] = <<>>
    THEN [exc |-> "", val |-> machines]
    ELSE LET parts == lines[i]
             cols == {header[c] : c \in 1..Len(header)}
             line_dict == [h \in cols |->
                             parts[CHOOSE c \in 1..Len(header) :
                                     /\ header[c] = h
                                     /\ \A c2 \in 1..Len(header) :
                                            header[c2] = h => c2 <= c]]
         IN  IF Len(parts) < Len(header)
             THEN [exc |-> "IndexError", val |-> EmptyDict]
             ELSE IF ~({"directory", "name", "provider"} \subseteq cols)
             THEN [exc |-> "KeyError", val |-> EmptyDict]
             ELSE LET vagrant_path == <<line_dict["directory"], line_dict["name"],
                                        line_dict["provider"]>>
                  IN  IF vagrant_path \notin DOMAIN fs
                      THEN [exc |-> "IOError: sentinel file", val |-> EmptyDict]
                      ELSE LET with_dir == DictSet(line_dict, "dir_name",
                                               os_path_basename(line_dict["directory"]))
                               full == DictSet(with_dir, "index_uuid",
                                               fs[vagrant_path].index_uuid)
                           IN  ParseRows(lines, header, i + 1, fs,
                                         DictSet(machines, ProviderId(fs, vagrant_path),
                                                 full))

\* get_vagrant_machines() when the command printed text and the files are fs
get_vagrant_machines(text, fs) == ParseRows(text, text[1], 3, fs, EmptyDict)

InitParse ==
    /\ pc = "unparsed"
    /\ error = ""
    /\ sort_col = "cpu_percent"
    /\ sort_reverse = TRUE
    /\ graceful_exit = FALSE
    /\ ssh = FALSE
    /\ vagrant_machines = EmptyDict
    /\ running_vms = EmptyDict
    /\ keys = <<>>
    /\ interval = 0
    /\ slice = 0
    /\ idx = 0
    /\ procs = <<>>
    /\ procs_status = EmptyDict
    /\ refreshCount = 0
    /\ workers = 0
    /\ vanished = 0
    /\ loadCalls = 0
    /\ vagrant_comment = None
    /\ tmp_dir = "missing"
    /\ stdout \in ListingTexts
    /\ files \in SentinelFiles

\* self.vagrant_machines = get_vagrant_machines()
ParseListing ==
    /\ pc = "unparsed"
    /\ LET res == get_vagrant_machines(stdout, files)
       IN  /\ error' = res.exc
           /\ vagrant_machines' = res.val
           /\ pc' = IF res.exc = "" THEN "parsed" ELSE "crashed"
    /\ UNCHANGED <<display, ssh, running_vms, keys, interval, slice, pollLocals>>
    /\ UNCHANGED <<tmp_dir, parserInput>>

ParseSpec == InitParse /\ [][ParseListing]_vars

(***************************************************************************)
(* The correlation on its own: any inventory, any state of the scratch     *)
(* directory when the processes of a poll are read.                        *)
(***************************************************************************)
\* /tmp/vagranttop: not there, there without a Vagrantfile, there with it
ScratchStates == {"missing", "empty", "vagrantfile"}

InitLoad ==
    /\ pc = "enum"
    /\ error = ""
    /\ sort_col = "cpu_percent"
    /\ sort_reverse = TRUE
    /\ graceful_exit = FALSE
    /\ ssh \in BOOLEAN
    /\ vagrant_machines \in MachineListings
    /\ running_vms \in RunningListings
    /\ keys = <<>>
    /\ interval = 0
    /\ slice = 0
    /\ idx = 0
    /\ procs = <<>>
    /\ procs_status = EmptyDict
    /\ refreshCount = 0
    /\ workers = 0
    /\ vanished = 0
    /\ loadCalls = 0
    /\ vagrant_comment = None
    /\ tmp_dir \in ScratchStates
    /\ stdout = <<>>
    /\ files = EmptyDict

LoadSpec == InitLoad /\ [][PollWorker]_vars

(***************************************************************************)
(* The loop with keys typed ahead: the input holds up to MaxTyped keys     *)
(* when the program starts and no VBoxHeadless process runs.               *)
(***************************************************************************)
TypedAhead == UNION { [1..n -> Keys] : n \in 0..MaxTyped }

InitTyped ==
    /\ pc = "start"
    /\ error = ""
    /\ sort_col = "cpu_percent"
    /\ sort_reverse = TRUE
    /\ graceful_exit = FALSE
    /\ ssh = FALSE
    /\ vagrant_machines = EmptyDict
    /\ running_vms = EmptyDict
    /\ keys \in TypedAhead
    /\ interval = 0
    /\ slice = 0
    /\ idx = 0
    /\ procs = <<>>
    /\ procs_status = EmptyDict
    /\ refreshCount = 0
    /\ workers = 0
    /\ vanished = 0
    /\ loadCalls = 0
    /\ vagrant_comment = None
    /\ tmp_dir = "missing"
    /\ stdout = <<>>
    /\ files = EmptyDict

TypedStep ==
    \/ Construct
    \/ LoopTest
    \/ ReadKey
    \/ SleepSlice
    \/ PollOther
    \/ PollSort
    \/ Render

TypedSpec == InitTyped /\ [][TypedStep]_vars

(***************************************************************************)
(* Vocabulary of the properties.                                           *)
(***************************************************************************)
InventoryErrors == { "CalledProcessError: vagrant global-status",
                     "IOError: sentinel file",
                     "CalledProcessError: VBoxManage list runningvms" }

LoadError == "CalledProcessError: vagrant ssh"

Polling == pc \in {"enum", "render"}

\* win.getkey() returns k in this step
KeyRead(k) == pc = "sleep" /\ keys # <<>> /\ Head(keys) = k /\ keys' = Tail(keys)

Reverse(seq) == [i \in 1..Len(seq) |-> seq[Len(seq) + 1 - i]]

KeysOf(seq, col) == [i \in 1..Len(seq) |-> seq[i][col]]

DistinctKeys(seq, col) ==
    \A i, j \in 1..Len(seq) : i # j => seq[i][col] # seq[j][col]

\* seq is in the order of column col: non-increasing if rev, else non-decreasing
Ordered(seq, col, rev) ==
    \A i, j \in 1..Len(seq) :
        i < j => IF rev THEN ~PyLess(seq[i][col], seq[j][col])
                        ELSE ~PyLess(seq[j][col], seq[i][col])

RECURSIVE SumCounts(_)
SumCounts(d) ==
    IF DOMAIN d = {} THEN 0
    ELSE LET x == CHOOSE y \in DOMAIN d : TRUE
         IN  d[x] + SumCounts([y \in DOMAIN d \ {x} |-> d[y]])

Correlated(e) == e.vm_id # Str("")

(***************************************************************************)
(* C1.  Inventory refreshes per poll cycle.                                *)
(***************************************************************************)
\* C1 as stated: within one poll cycle at most one inventory refresh is
\* performed, however many processes miss in running_vms.
C1_AtMostOneRefreshPerPoll == refreshCount <= 1

\* C1 amended: within one poll cycle at most one inventory refresh is performed
\* per VBoxHeadless process read: the refreshes of a cycle never outnumber them.
C1_RefreshesBoundedByWorkers == refreshCount <= workers

\* two VBoxHeadless processes missed in the same cycle and each refreshed
C1_Witness == pc = "render" /\ workers = 2 /\ refreshCount = 2 /\ Len(procs) = 2

(***************************************************************************)
(* C2.  Sort keys.                                                         *)
(***************************************************************************)
\* C2 as stated: the key of the selected column toggles the direction; the key
\* of another column always leaves the direction descending.
C2_OtherColumnResetsDescending ==
    [][\A k \in DOMAIN key_map :
          KeyRead(k) =>
             sort_reverse' = (IF key_map[k] = sort_col THEN ~sort_reverse ELSE TRUE)]_vars

\* C2 amended: the key of the selected column toggles the direction (so two
\* presses in a row restore it); the key of another column selects that column
\* and leaves the direction as it was.
C2_OtherColumnKeepsDirection ==
    [][\A k \in DOMAIN key_map :
          KeyRead(k) =>
             /\ sort_col' = key_map[k]
             /\ sort_reverse' = (IF key_map[k] = sort_col THEN ~sort_reverse
                                                          ELSE sort_reverse)]_vars

\* the direction is ascending and the key of another column is about to be read
C2_Witness ==
    /\ pc = "sleep"
    /\ ~sort_reverse
    /\ sort_col = "vm_name"
    /\ keys # <<>>
    /\ Head(keys) = "c"

(***************************************************************************)
(* C3.  The quit key.                                                      *)
(***************************************************************************)
\* C3 as stated: once the quit key is consumed, no process is enumerated, no
\* refresh, sort or render is executed before the loop terminates.
C3_QuitSkipsThePass ==
    [][graceful_exit /\ pc # "crashed" =>
          /\ idx' = idx
          /\ procs' = procs
          /\ inventory' = inventory
          /\ pc' \in {pc, "done"}]_vars

AfterQuitSteps ==
    { <<"enum", "enum">>, <<"enum", "render">>, <<"enum", "crashed">>,
      <<"render", "render">>, <<"render", "loop">>, <<"render", "crashed">>,
      <<"loop", "loop">>, <<"loop", "done">> }

\* C3 amended: when the quit key is read during a sleep slice the rest of the
\* sleep is abandoned, the poll in progress still enumerates, sorts and renders
\* once, and then the loop halts: no further sleep begins and no further key is
\* read.
C3_QuitFinishesThePass ==
    [][/\ KeyRead("q") => graceful_exit' /\ pc' = "enum"
       /\ graceful_exit =>
             /\ graceful_exit'
             /\ <<pc, pc'>> \in AfterQuitSteps
             /\ Len(keys') >= Len(keys)]_vars

\* the entries polled after the quit key was read are about to be rendered
C3_Witness == graceful_exit /\ pc = "render" /\ Len(procs) = 2

(***************************************************************************)
(* C4.  One full pass between two sleeps.                                  *)
(***************************************************************************)
\* C4: every sleep, cut short by a key or not, is followed by one pass of
\* poll, sort and render before the next sleep begins, and the pass orders the
\* entries by the sort column and direction as the key read in that sleep left
\* them.
C4_FullPassAfterEverySleep ==
    [][/\ pc = "sleep" /\ pc' # "sleep" => pc' = "enum" /\ idx' = 0 /\ procs' = <<>>
       /\ pc = "enum" /\ pc' # "enum" => pc' \in {"render", "crashed"}
       /\ pc = "enum" /\ pc' = "render" =>
             /\ Ordered(procs', sort_col, sort_reverse)
             /\ Len(procs') = Len(procs)
             /\ {procs'[i] : i \in 1..Len(procs')} = {procs[i] : i \in 1..Len(procs)}
       /\ pc = "render" /\ pc' # "render" => pc' \in {"loop", "crashed"}
       /\ pc # "sleep" /\ pc' = "sleep" => pc = "loop"
       /\ pc # "loop" /\ pc' = "loop" => pc \in {"start", "render"}
       /\ Polling => display' = display]_vars

\* the first sleep was cut short by the key of the vm_name column and the pass
\* that follows has sorted two entries with different names by it
C4_Witness ==
    /\ pc = "render"
    /\ interval = 0
    /\ sort_col = "vm_name"
    /\ Len(procs) = 2
    /\ procs[1].vm_name # procs[2].vm_name

(***************************************************************************)
(* C5.  Failure of the remote load command.                                *)
(***************************************************************************)
\* C5: with ssh on, a failing remote load command leaves vm_load at "?" and the
\* poll goes on; it never ends the program.
C5_LoadFailureNotFatal == ~(pc = "crashed" /\ error = LoadError)

(***************************************************************************)
(* C6.  vm_load with ssh off.                                              *)
(***************************************************************************)
\* C6 as stated: with ssh off every entry has vm_load "?", correlated or not,
\* and no remote load command is run.
C6_EveryLoadIsPlaceholder ==
    ~ssh => /\ loadCalls = 0
            /\ \A i \in 1..Len(procs) : procs[i].vm_load = Str("?")

\* C6 amended: with ssh off every correlated entry has vm_load "?", every
\* uncorrelated entry has vm_load "", and no remote load command is run.
C6_LoadWhenDisabled ==
    ~ssh => /\ loadCalls = 0
            /\ \A i \in 1..Len(procs) :
                  procs[i].vm_load = IF Correlated(procs[i]) THEN Str("?") ELSE Str("")

\* with ssh off, a poll returned a correlated and an uncorrelated entry
C6_Witness ==
    /\ ~ssh
    /\ pc = "render"
    /\ Len(procs) = 2
    /\ Correlated(procs[1])
    /\ ~Correlated(procs[2])

(***************************************************************************)
(* C7.  A VBoxHeadless process without a comment.                          *)
(***************************************************************************)
\* C7: a process without a `--comment` token is retained with vm_id "" and
\* vm_name "" (not None), and neither poll nor render raises for it.
C7_NoCommentGivesEmptyName ==
    /\ \A i \in 1..Len(procs) : ~Correlated(procs[i]) => procs[i].vm_name.k = 2
    /\ error # "TypeError"

(***************************************************************************)
(* C8.  Failure of an inventory refresh.                                   *)
(***************************************************************************)
\* C8: a failed inventory refresh, at startup or in a poll, ends the program:
\* nothing is rendered and no further cycle runs after it.
C8_InventoryFailureIsFatal ==
    [][/\ error' \in InventoryErrors => pc' = "crashed"
       /\ pc = "crashed" => pc' = "crashed"]_vars

\* a refresh failed in a poll cycle after the first render
C8_Witness == pc = "crashed" /\ error \in InventoryErrors /\ interval = 1

(***************************************************************************)
(* C9.  Vanished processes and the status histogram.                       *)
(***************************************************************************)
\* C9: a process that vanishes while it is read is in neither the entry list
\* nor the histogram and the enumeration goes on; every other process is
\* counted exactly once in the histogram, VBoxHeadless or not.
C9_VanishedSkippedOthersCounted ==
    Polling => /\ SumCounts(procs_status) = idx - vanished
               /\ Len(procs) = workers
               /\ workers <= idx - vanished

\* the first process vanished, the second was retained and counted
C9_Witness ==
    /\ pc = "render"
    /\ idx = 2
    /\ vanished = 1
    /\ Len(procs) = 1
    /\ procs[1].pid = Num(2)
    /\ SumCounts(procs_status) = 1

(***************************************************************************)
(* C10.  Ascending-then-reversed against descending.                       *)
(***************************************************************************)
\* C10 as stated: for every list and column, also with equal keys, sorting
\* ascending and reversing gives the same sequence as sorting descending.
C10_ReversedAscendingIsDescending ==
    \A col \in SortColumns :
        Reverse(sorted(procs, col, FALSE)) = sorted(procs, col, TRUE)

\* C10 amended: sorting ascending and reversing gives the same sequence of key
\* values as sorting descending, and the same sequence of entries when no two
\* entries have equal keys.
C10_ReversedAscendingSameKeys ==
    \A col \in SortColumns :
        LET asc == sorted(procs, col, FALSE)
            desc == sorted(procs, col, TRUE)
        IN  /\ KeysOf(Reverse(asc), col) = KeysOf(desc, col)
            /\ DistinctKeys(procs, col) => Reverse(asc) = desc

\* two entries with equal memory_percent and different cpu_percent were sorted
C10_Witness ==
    /\ pc = "sorted"
    /\ Len(procs) = 2
    /\ procs[1].memory_percent = procs[2].memory_percent
    /\ procs[1].cpu_percent # procs[2].cpu_percent


(***************************************************************************)
(* C11.  Size and keys of the parsed VM record set.                        *)
(***************************************************************************)
\* the data rows of a listing text: from line 3 up to the first blank line
RECURSIVE DataRows(_, _)
DataRows(text, i) ==
    IF i > Len(text) \/ text[i] = <<>> THEN <<>>
    ELSE <<text[i]>> \o DataRows(text, i + 1)

\* the sentinel path of a data row
RowPath(row) == <<row[5], row[2], row[3]>>

\* the content of the `id` files of the data rows
RowIds(text, fs) ==
    { fs[RowPath(DataRows(text, 3)[r])].id : r \in 1..Len(DataRows(text, 3)) }

\* C11 as stated: a listing with N data rows whose sentinel files exist is
\* parsed into exactly N records, each under a non-empty providerInstanceId,
\* also when two `id` files have the same content or an `id` file is empty.
C11_OneRecordPerRow ==
    pc = "parsed" =>
        /\ Cardinality(DOMAIN vagrant_machines) = Len(DataRows(stdout, 3))
        /\ \A provider_id \in DOMAIN vagrant_machines : provider_id # ""

\* C11 amended: a listing with N data rows whose sentinel files exist is
\* parsed into one record per distinct content of the rows' `id` files, each
\* stored under that content: at most N records, exactly N when the contents
\* differ pairwise, and a record under the empty identifier when an `id` file
\* is empty.  Every record carries the columns of a row with that `id` file.
C11_OneRecordPerDistinctId ==
    pc = "parsed" =>
        LET rows == DataRows(stdout, 3)
        IN  /\ DOMAIN vagrant_machines = RowIds(stdout, files)
            /\ Cardinality(DOMAIN vagrant_machines) <= Len(rows)
            /\ (\A r1, r2 \in 1..Len(rows) :
                    r1 # r2 => files[RowPath(rows[r1])].id # files[RowPath(rows[r2])].id)
                => Cardinality(DOMAIN vagrant_machines) = Len(rows)
            /\ \A provider_id \in DOMAIN vagrant_machines :
                   \E r \in 1..Len(rows) :
                       /\ files[RowPath(rows[r])].id = provider_id
                       /\ vagrant_machines[provider_id].id = rows[r][1]
                       /\ vagrant_machines[provider_id].directory = rows[r][5]
                       /\ vagrant_machines[provider_id].index_uuid =
                              files[RowPath(rows[r])].index_uuid

\* two different rows whose `id` files hold the same text were parsed into one
\* record
C11_Witness ==
    /\ pc = "parsed"
    /\ Len(DataRows(stdout, 3)) = 2
    /\ DataRows(stdout, 3)[1] # DataRows(stdout, 3)[2]
    /\ Cardinality(DOMAIN vagrant_machines) = 1
    /\ DOMAIN vagrant_machines = {"u1"}


(***************************************************************************)
(* C12.  What a resolved process copies from its VM record.                *)
(***************************************************************************)
\* this step of the poll appended an entry that resolved to a VM record
AppendsCorrelated ==
    /\ pc = "enum"
    /\ Len(procs') = Len(procs) + 1
    /\ Correlated(procs'[Len(procs')])

\* the keys of vagrant_machines that running_vms points to after the step
ResolvedKeys ==
    { running_vms'[c] : c \in DOMAIN running_vms' } \cap DOMAIN vagrant_machines'

\* C12 as stated: the vm_id of a resolved entry is the key under which its VM
\* record is stored (the text of the `id` sentinel file), its vm_dir is the
\* record's dir_name and its vm_name the record's name.
C12_VmIdIsTheRecordKey ==
    [][AppendsCorrelated =>
         \E provider_id \in ResolvedKeys :
             LET e == procs'[Len(procs')]
                 vm == vagrant_machines'[provider_id]
             IN  /\ e.vm_id = Str(provider_id)
                 /\ e.vm_dir = Str(vm.dir_name)
                 /\ e.vm_name = Str(vm.name)]_vars

\* C12 amended: the vm_id of a resolved entry is the `id` column of the
\* listing row of its VM record, its vm_dir is the record's dir_name and its
\* vm_name the record's name; the key of the record is not copied.
C12_VmIdIsTheListingId ==
    [][AppendsCorrelated =>
         \E provider_id \in ResolvedKeys :
             LET e == procs'[Len(procs')]
                 vm == vagrant_machines'[provider_id]
             IN  /\ e.vm_id = Str(vm.id)
                 /\ e.vm_dir = Str(vm.dir_name)
                 /\ e.vm_name = Str(vm.name)]_vars

\* a resolved entry is in the list, its record stored under another text than
\* the entry's vm_id
C12_Witness ==
    /\ Polling
    /\ Len(procs) >= 1
    /\ Correlated(procs[1])
    /\ procs[1].vm_dir = Str("box1")
    /\ "box1_default" \in DOMAIN running_vms
    /\ running_vms["box1_default"] \in DOMAIN vagrant_machines
    /\ procs[1].vm_id # Str(running_vms["box1_default"])


(***************************************************************************)
(* C13.  The quit key ends the loop.                                       *)
(***************************************************************************)
QuitPending == \E i \in 1..Len(keys) : keys[i] = "q"

\* an external command or file read failed
ExternalCallFailed == error \in InventoryErrors \cup {LoadError}

\* C13 as stated: provided every external call returns, a pending quit key
\* leads to the end of the loop from whichever state; and graceful_exit, once
\* set, is never cleared.
C13_QuitLeadsToTerminated ==
    /\ QuitPending ~> (pc = "done" \/ ExternalCallFailed)
    /\ [][graceful_exit => graceful_exit']_vars

\* what the program does keep: a pending quit key leads to the end of the loop
\* or to an exception leaving it
C13_QuitLeadsToEnd == QuitPending ~> (pc = "done" \/ pc = "crashed")


(***************************************************************************)
(* C14.  The list poll returns.                                            *)
(***************************************************************************)
\* t holds the elements of s, each as often as s does
IsPermutation(s, t) ==
    /\ Len(s) = Len(t)
    /\ \E f \in [1..Len(s) -> 1..Len(s)] :
           /\ \A i, j \in 1..Len(s) : i # j => f[i] # f[j]
           /\ \A i \in 1..Len(s) : t[i] = s[f[i]]

\* C14: the list poll returns is a permutation of the entries of exactly the
\* VBoxHeadless processes of the snapshot that did not vanish (one entry per
\* such process, under its pid, none for any other process), in the order of
\* sort_col: non-increasing when sort_reverse, non-decreasing otherwise.
C14_ReturnsSortedWorkers ==
    [][/\ pc = "enum" /\ pc' = "enum" /\ workers' = workers + 1 =>
             /\ Len(procs') = Len(procs) + 1
             /\ SubSeq(procs', 1, Len(procs)) = procs
             /\ procs'[Len(procs')].pid = Num(idx')
       /\ pc = "enum" /\ pc' = "enum" /\ workers' = workers => procs' = procs
       /\ pc = "enum" /\ pc' = "render" =>
             /\ IsPermutation(procs, procs')
             /\ Len(procs') = workers
             /\ \A i, j \in 1..Len(procs') : i # j => procs'[i].pid # procs'[j].pid
             /\ \A i, j \in 1..Len(procs') :
                    i < j => IF sort_reverse
                             THEN ~PyLess(procs'[i][sort_col], procs'[j][sort_col])
                             ELSE ~PyLess(procs'[j][sort_col], procs'[i][sort_col])]_vars

\* ascending order was selected and the poll returned two entries, the process
\* read second placed first
C14_Witness ==
    /\ pc = "render"
    /\ ~sort_reverse
    /\ Len(procs) = 2
    /\ procs[1].pid = Num(2)
    /\ PyLess(procs[1][sort_col], procs[2][sort_col])


(***************************************************************************)
(* C15.  One refresh and one retried lookup per missing process.           *)
(***************************************************************************)
\* this step of the poll handled a VBoxHeadless process
WorkerStep == pc = "enum" /\ (workers' = workers + 1 \/ pc' = "crashed")

\* the refreshes and the retried lookup of a worker step: a missing comment is
\* refreshed once, a present one not at all, and a comment still missing after
\* the refresh is shown as the name of an uncorrelated entry
OneRefreshOneRetry ==
    WorkerStep =>
        /\ pc' = "enum" =>
               refreshCount' = refreshCount +
                   (IF InRunning(vagrant_comment', running_vms) THEN 0 ELSE 1)
        /\ InRunning(vagrant_comment', running_vms) => inventory' = inventory
        /\ /\ pc' = "enum"
           /\ ~InRunning(vagrant_comment', running_vms)
           /\ ~InRunning(vagrant_comment', running_vms')
           => /\ ~Correlated(procs'[Len(procs')])
              /\ procs'[Len(procs')].vm_name = vagrant_comment'

\* C15 as stated: for each VBoxHeadless process a comment missing from
\* running_vms triggers exactly one refresh and one retried lookup, a present
\* comment no refresh, and when the refreshed running_vms holds the comment the
\* process is correlated in the same cycle.
C15_RefreshedCommentCorrelates ==
    [][/\ OneRefreshOneRetry
       /\ /\ WorkerStep
          /\ ~InRunning(vagrant_comment', running_vms)
          /\ InRunning(vagrant_comment', running_vms')
          => /\ pc' = "enum"
             /\ Correlated(procs'[Len(procs')])]_vars

\* the part of C15 that the program keeps
C15_OneRefreshOneRetry == [][OneRefreshOneRetry]_vars


(***************************************************************************)
(* C16.  The sleep interval.                                               *)
(***************************************************************************)
\* C16: the first cycle sleeps, polls and renders with interval 0; the end of
\* its render sets the interval to 1, every later cycle runs with 1, the
\* interval never returns to 0 and no key changes it.
C16_IntervalZeroThenOne ==
    [][/\ pc = "start" => interval = 0 /\ interval' = 0
       /\ interval' \in {0, 1}
       /\ interval = 1 => interval' = 1
       /\ interval' # interval => pc = "render" /\ pc' = "loop"
       /\ pc = "render" /\ pc' = "loop" => interval' = 1
       /\ pc = "sleep" /\ keys # <<>> => interval' = interval
       /\ keys' # keys => interval' = interval]_vars

\* a later cycle is asleep with interval 1 after a key changed the sort column
C16_Witness ==
    /\ pc = "sleep"
    /\ slice > 0
    /\ interval = 1
    /\ sort_col = "vm_name"


(***************************************************************************)
(* C17.  The scratch directory after a load fetch.                         *)
(***************************************************************************)
\* get_vagrant_load() was called in this step
LoadFetched == loadCalls' = loadCalls + 1 \/ error' = LoadError

\* C17 as stated: after a load fetch in enabled mode, whatever the scratch
\* directory was before (missing, present without the Vagrantfile, present
\* with it), it exists and holds the Vagrantfile, and a further fetch leaves
\* it so.
C17_FetchLeavesVagrantfile ==
    [][/\ LoadFetched => tmp_dir' = "vagrantfile"
       /\ tmp_dir = "vagrantfile" => tmp_dir' = "vagrantfile"]_vars

\* what the program does keep: a fetch creates the directory and the file
\* together when the directory is missing and changes nothing otherwise
C17_FetchCreatesOnlyWhenMissing ==
    [][/\ LoadFetched =>
             tmp_dir' = IF tmp_dir = "missing" THEN "vagrantfile" ELSE tmp_dir
       /\ ~LoadFetched => tmp_dir' = tmp_dir]_vars


(***************************************************************************)
(* C18.  Who changes sort_col, sort_reverse and graceful_exit.             *)
(***************************************************************************)
\* C18: the three fields start as (cpu_percent, descending, no exit) and
\* change only when check_input reads a key; sort_col is always one of the
\* seven columns of key_map; construction, the loop test, the enumeration,
\* the correlation, the sort and the render leave the three unchanged; "q"
\* changes graceful_exit alone; a key that is neither "q" nor in key_map
\* changes none.
C18_OnlyInputChangesDisplay ==
    [][/\ pc = "start" =>
             sort_col = "cpu_percent" /\ sort_reverse /\ ~graceful_exit
       /\ Cardinality(SortColumns) = 7
       /\ sort_col \in SortColumns /\ sort_col' \in SortColumns
       /\ display' # display => pc = "sleep" /\ keys # <<>> /\ keys' = Tail(keys)
       /\ pc \in {"start", "loop", "enum", "render"} =>
             /\ sort_col' = sort_col
             /\ sort_reverse' = sort_reverse
             /\ graceful_exit' = graceful_exit
       /\ KeyRead("q") =>
             /\ sort_col' = sort_col
             /\ sort_reverse' = sort_reverse
             /\ graceful_exit'
       /\ \A k \in Keys \ ({"q"} \cup DOMAIN key_map) :
             KeyRead(k) => display' = display]_vars

\* "q" was read after the vm_name column had been selected and reversed: the
\* exit is requested, column and direction are as they were
C18_Witness ==
    /\ Polling
    /\ graceful_exit
    /\ sort_col = "vm_name"
    /\ ~sort_reverse


(***************************************************************************)
(* C19.  One key per cycle.                                                *)
(***************************************************************************)
\* C19: in the sleep of a cycle the input is checked before each of the 99
\* slices (a slice is slept only after a check that found no key, and the poll
\* starts without a key only after the 99th slice); the first key read ends
\* the sleep, whatever the key; hence a cycle reads at most one key, and the
\* next key is read only after the poll, the sort, the render and the loop
\* test of the cycle of the key before it: k pending keys take k cycles.
C19_OneKeyPerCycle ==
    [][/\ Len(keys') < Len(keys) =>
             /\ pc = "sleep"
             /\ keys' = Tail(keys)
             /\ pc' = "enum"
             /\ idx' = 0
       /\ pc = "sleep" /\ keys # <<>> /\ Len(keys') <= Len(keys) =>
             keys' = Tail(keys) /\ pc' = "enum"
       /\ pc = "sleep" /\ pc' = "sleep" /\ slice' # slice =>
             keys = <<>> /\ slice' = slice + 1 /\ slice' < 99
       /\ pc = "sleep" /\ pc' = "enum" /\ keys' = keys =>
             keys = <<>> /\ slice = 98
       /\ pc = "enum" /\ pc' # "enum" => pc' \in {"render", "crashed"}
       /\ pc = "render" /\ pc' # "render" => pc' \in {"loop", "crashed"}
       /\ pc = "loop" /\ pc' # "loop" => pc' \in {"sleep", "done"}
       /\ pc \in {"done", "crashed"} => keys' = keys]_vars

\* of three keys typed ahead, "n" was read in the first cycle and "n" again in
\* the second; the third is still pending while the second cycle renders
C19_Witness ==
    /\ pc = "render"
    /\ interval = 1
    /\ sort_col = "vm_name"
    /\ ~sort_reverse
    /\ Len(keys) = 1


(***************************************************************************)
(* C20.  The record of a running instance.                                 *)
(***************************************************************************)
\* C20 as stated: when the comment of a VBoxHeadless process is in running_vms
\* after the conditional refresh, the identifier it maps to is a key of
\* vagrant_machines and the poll is not left by a KeyError, whatever the two
\* listings hold.
C20_RunningInstanceHasRecord ==
    [][/\ WorkerStep /\ InRunning(vagrant_comment', running_vms') =>
             running_vms'[vagrant_comment'.s] \in DOMAIN vagrant_machines'
       /\ error' # "KeyError"]_vars

====
